---- MODULE Spec2Model ----
(***************************************************************************)
(* Model of the ad_hoc_result crate (src/src/lib.rs): the three-variant    *)
(* AdHocResult<T, E>, its constructors, extraction methods and             *)
(* conversions to and from the standard Result<T, E>.                      *)
(*                                                                         *)
(* A client owns one binding `x` of type AdHocResult and one binding `r`   *)
(* of type Result.  Every method of the crate takes `self` by value, so a  *)
(* call moves the binding it is applied to.  A panic ends the client.      *)
(***************************************************************************)
EXTENDS Integers, FiniteSets, Sequences, TLC

\* ---------------------------------------------------------------- bounds
MaxValue == 1
MaxError == 1

\* payloads of type T and of type E (both drawn from the same integers, so
\* that only the variant tag tells Ok(n) from Err(n))
Values == 0..MaxValue
Errors == 0..MaxError

\* caller-supplied diagnostic texts for expect / expect_adhoc
Messages == {"Testing expect", "Testing expect_adhoc"}

\* ------------------------------------------------------- the enum (39-46)
Ok(v) == [ty |-> "AdHocResult", tag |-> "Ok", value |-> v]
AdHoc(v, e) == [ty |-> "AdHocResult", tag |-> "AdHoc", value |-> v, error |-> e]
Err(e) == [ty |-> "AdHocResult", tag |-> "Err", error |-> e]

AdHocResult ==
    {Ok(v) : v \in Values}
        \cup {AdHoc(v, e) : v \in Values, e \in Errors}
        \cup {Err(e) : e \in Errors}

\* ------------------------------------------ core::result::Result<T, E>
ResultOk(v) == [ty |-> "Result", tag |-> "Ok", value |-> v]
ResultErr(e) == [ty |-> "Result", tag |-> "Err", error |-> e]

Result == {ResultOk(v) : v \in Values} \cup {ResultErr(e) : e \in Errors}

\* ------------------------------------------------ how a call can end
\* a call either returns a value to the caller or unwinds with a panic
Returned(val) == [kind |-> "return", value |-> val]
\* panic!("{}", message): the payload is the Display rendering of a &str,
\* which is the text itself
Panicked(message) == [kind |-> "panic", message |-> message]

\* ------------------------------------------------------------ methods
expect_accepts_adhoc(self, message) ==
    IF self.tag \in {"Ok", "AdHoc"} THEN Returned(self.value) ELSE Panicked(message)

expect(self, message) ==
    IF self.tag = "Ok" THEN Returned(self.value) ELSE Panicked(message)

DefaultMessage == "Unwrap fails"

unwrap_own_text(self) == expect(self, "unwrap failed")

unwrap(self) == expect(self, DefaultMessage)

expect_adhoc_rejects_adhoc(self, message) ==
    IF self.tag = "Ok" THEN Returned(self.value) ELSE Panicked(message)

expect_adhoc(self, message) ==
    CASE self.tag = "Ok" -> Returned(self.value)
      [] self.tag = "AdHoc" -> Returned(self.value)
      [] OTHER -> Panicked(message)

unwrap_adhoc(self) == expect_adhoc(self, DefaultMessage)

to_result_keeps_value(self) ==
    CASE self.tag = "Ok" -> Returned(ResultOk(self.value))
      [] self.tag = "AdHoc" -> Returned(ResultOk(self.value))
      [] self.tag = "Err" -> Returned(ResultErr(self.error))

to_result(self) ==
    CASE self.tag = "Ok" -> Returned(ResultOk(self.value))
      [] self.tag = "AdHoc" -> Returned(ResultErr(self.error))
      [] self.tag = "Err" -> Returned(ResultErr(self.error))

to_result_with_adhoc_by_expect(self) ==
    IF self.tag = "Err"
    THEN Panicked(DefaultMessage)
    ELSE Returned(ResultOk(self.value))

to_result_with_adhoc_keeps_error(self) ==
    CASE self.tag = "Ok" -> Returned(ResultOk(self.value))
      [] self.tag = "AdHoc" -> Returned(ResultErr(self.error))
      [] self.tag = "Err" -> Returned(ResultErr(self.error))

to_result_with_adhoc(self) ==
    CASE self.tag = "Ok" -> Returned(ResultOk(self.value))
      [] self.tag = "AdHoc" -> Returned(ResultOk(self.value))
      [] self.tag = "Err" -> Returned(ResultErr(self.error))

\* ------------------------------------------------------- From conversions
from_result_flags_ok(result) ==
    IF result.tag = "Ok"
    THEN Returned(AdHoc(result.value, 0))
    ELSE Returned(Err(result.error))

from_result_drops_error(result) ==
    IF result.tag = "Ok"
    THEN Returned(Ok(result.value))
    ELSE Returned(Err(0))

\* impl From<Result<T, E>> for AdHocResult<T, E>
from_result(result) ==
    IF result.tag = "Ok"
    THEN Returned(Ok(result.value))
    ELSE Returned(Err(result.error))

from_adhoc_keeps_value(adhoc) == to_result_with_adhoc(adhoc)

\* impl From<AdHocResult<T, E>> for Result<T, E>
from_adhoc(adhoc) == to_result(adhoc)

\* ----------------------------------------------------------- constructors
new_ok(value) == Returned(Ok(value))
new_adhoc(value, error) == Returned(AdHoc(value, error))
new_err(error) == Returned(Err(error))

\* ------------------------------------------------------------- ownership
Unbound == [ty |-> "none", tag |-> "Unbound"]
Moved == [ty |-> "none", tag |-> "Moved"]

IsLive(b) == b.ty # "none"

BorrowedSelf(self) == self

\* the receiver `self` (not `&self`) of every method: the call takes the
\* binding, which the caller can no longer use
MovedSelf(self) == Moved

\* ------------------------------------------------------------------ state
VARIABLES
    x,      \* the client's AdHocResult binding
    r,      \* the client's Result binding
    last,   \* the latest call into the crate: [op, arg, message, out]
    prev,   \* the call before it
    uses    \* extractions/conversions applied to x since it was built

vars == <<x, r, last, prev, uses>>

NoCall == [op |-> "none", arg |-> Unbound, message |-> "", out |-> Returned(Unbound)]

Call(op, arg, message, out) == [op |-> op, arg |-> arg, message |-> message, out |-> out]

Constructors == {"new_ok", "new_adhoc", "new_err", "from_result"}
Extractors == {"expect", "unwrap", "expect_adhoc", "unwrap_adhoc"}
Conversions == {"to_result", "to_result_with_adhoc", "into"}

Aborted == last.out.kind = "panic"

Init ==
    /\ x = Unbound
    /\ r = Unbound
    /\ last = NoCall
    /\ prev = NoCall
    /\ uses = 0

\* let x = AdHocResult::new_ok(v) etc.: the call's return value is bound to x
Construct(op, arg, out) ==
    /\ ~Aborted
    /\ x' = out.value
    /\ uses' = 0
    /\ last' = Call(op, arg, "", out)
    /\ prev' = last

NewOk == \E v \in Values :
    /\ Construct("new_ok", [value |-> v], new_ok(v))
    /\ UNCHANGED r

NewAdhoc == \E v \in Values, e \in Errors :
    /\ Construct("new_adhoc", [value |-> v, error |-> e], new_adhoc(v, e))
    /\ UNCHANGED r

NewErr == \E e \in Errors :
    /\ Construct("new_err", [error |-> e], new_err(e))
    /\ UNCHANGED r

\* the client builds a standard Result of its own: let r = Ok(v) / Err(e)
MakeResult == \E res \in Result :
    /\ ~Aborted
    /\ r' = res
    /\ UNCHANGED <<x, last, prev, uses>>

\* let x: AdHocResult<_, _> = r.into()
FromResult ==
    /\ IsLive(r)
    /\ Construct("from_result", r, from_result(r))
    /\ r' = Moved

\* x.expect(m), x.unwrap(), ...: the value comes back to the caller (held in
\* last.out) or the call panics; either way x has been moved into the call
Extract(op, message, out) ==
    /\ ~Aborted
    /\ IsLive(x)
    /\ x' = MovedSelf(x)
    /\ uses' = uses + 1
    /\ last' = Call(op, x, message, out)
    /\ prev' = last
    /\ UNCHANGED r

Expect == \E m \in Messages : Extract("expect", m, expect(x, m))

Unwrap == Extract("unwrap", "", unwrap(x))

ExpectAdhoc == \E m \in Messages : Extract("expect_adhoc", m, expect_adhoc(x, m))

UnwrapAdhoc == Extract("unwrap_adhoc", "", unwrap_adhoc(x))

\* let r = x.to_result() etc.
Convert(op, out) ==
    /\ ~Aborted
    /\ IsLive(x)
    /\ x' = MovedSelf(x)
    /\ uses' = uses + 1
    /\ last' = Call(op, x, "", out)
    /\ prev' = last
    /\ r' = IF out.kind = "return" THEN out.value ELSE r

ToResult == Convert("to_result", to_result(x))

ToResultWithAdhoc == Convert("to_result_with_adhoc", to_result_with_adhoc(x))

\* let r: Result<_, _> = x.into()
IntoResult == Convert("into", from_adhoc(x))

Next ==
    \/ NewOk
    \/ NewAdhoc
    \/ NewErr
    \/ MakeResult
    \/ FromResult
    \/ Expect
    \/ Unwrap
    \/ ExpectAdhoc
    \/ UnwrapAdhoc
    \/ ToResult
    \/ ToResultWithAdhoc
    \/ IntoResult

Spec == Init /\ [][Next]_vars

\* ================================================================= claims

\* C1: expect(m) returns v on Ok(v) (also when built by new_ok(v)) and panics
\* with m on AdHoc(v, e) and on Err(e), returning no value; unwrap() returns
\* or panics on the same variants.
C1_ExpectOnlyAcceptsOk ==
    /\ last.op = "expect" =>
         last.out = IF last.arg.tag = "Ok"
                    THEN Returned(last.arg.value)
                    ELSE Panicked(last.message)
    /\ (last.op = "expect" /\ prev.op = "new_ok") =>
         last.out = Returned(prev.arg.value)
    /\ last.op = "unwrap" =>
         IF last.arg.tag = "Ok"
         THEN last.out = Returned(last.arg.value)
         ELSE last.out.kind = "panic"

C1_Witness ==
    /\ last.op = "expect"
    /\ prev.op = "new_adhoc"
    /\ last.arg = AdHoc(prev.arg.value, prev.arg.error)
    /\ last.out = Panicked(last.message)
    /\ last.message \in Messages

\* C2: expect_adhoc(m) returns v on Ok(v) and on AdHoc(v, e) (also when built
\* by new_adhoc(v, e)), dropping e, and panics with m only on Err(e);
\* unwrap_adhoc() returns or panics on the same variants.
C2_ExpectAdhocAcceptsAdHoc ==
    /\ last.op = "expect_adhoc" =>
         last.out = IF last.arg.tag \in {"Ok", "AdHoc"}
                    THEN Returned(last.arg.value)
                    ELSE Panicked(last.message)
    /\ (last.op = "expect_adhoc" /\ prev.op = "new_adhoc") =>
         last.out = Returned(prev.arg.value)
    /\ last.op = "unwrap_adhoc" =>
         IF last.arg.tag \in {"Ok", "AdHoc"}
         THEN last.out = Returned(last.arg.value)
         ELSE last.out.kind = "panic"

C2_Witness ==
    /\ last.op = "expect_adhoc"
    /\ prev.op = "new_adhoc"
    /\ last.arg.tag = "AdHoc"
    /\ last.arg.value # last.arg.error
    /\ last.out = Returned(prev.arg.value)

\* C3: to_result() maps Ok(v) to Result::Ok(v), AdHoc(v, e) to Result::Err(e)
\* (v dropped, e kept) and Err(e) to Result::Err(e).
C3_ToResult ==
    last.op = "to_result" =>
        /\ last.arg.tag = "Ok" => last.out = Returned(ResultOk(last.arg.value))
        /\ last.arg.tag = "AdHoc" => last.out = Returned(ResultErr(last.arg.error))
        /\ last.arg.tag = "Err" => last.out = Returned(ResultErr(last.arg.error))

C3_Witness ==
    /\ last.op = "to_result"
    /\ last.arg.tag = "AdHoc"
    /\ last.arg.value # last.arg.error
    /\ r = ResultErr(last.arg.error)

\* C4: to_result_with_adhoc() maps Ok(v) to Result::Ok(v), AdHoc(v, e) to
\* Result::Ok(v) (e dropped, v kept) and Err(e) to Result::Err(e); it yields
\* Result::Err only for the Err variant.
C4_ToResultWithAdhoc ==
    last.op = "to_result_with_adhoc" =>
        /\ last.arg.tag = "Ok" => last.out = Returned(ResultOk(last.arg.value))
        /\ last.arg.tag = "AdHoc" => last.out = Returned(ResultOk(last.arg.value))
        /\ last.arg.tag = "Err" => last.out = Returned(ResultErr(last.arg.error))
        /\ (last.out.value.tag = "Err") <=> (last.arg.tag = "Err")

C4_Witness ==
    /\ last.op = "to_result_with_adhoc"
    /\ last.arg.tag = "AdHoc"
    /\ last.arg.value # last.arg.error
    /\ r = ResultOk(last.arg.value)

\* C5: a standard Result converted into an AdHocResult by From and then back
\* by to_result() is the Result the client started from.
C5_RoundTrip ==
    (last.op = "to_result" /\ prev.op = "from_result") =>
        /\ last.arg = prev.out.value
        /\ last.out = Returned(prev.arg)

C5_Witness ==
    /\ last.op = "to_result"
    /\ prev.op = "from_result"
    /\ prev.arg.tag = "Ok"
    /\ r = prev.arg

\* C6: From<Result> maps Result::Ok(v) to AdHocResult::Ok(v) and
\* Result::Err(e) to AdHocResult::Err(e); it never yields AdHoc, two
\* different Results give two different AdHocResults, and some AdHocResult
\* is the image of no Result.
C6_FromResultInjection ==
    /\ last.op = "from_result" =>
         /\ last.arg.tag = "Ok" => last.out = Returned(Ok(last.arg.value))
         /\ last.arg.tag = "Err" => last.out = Returned(Err(last.arg.error))
         /\ last.out.value.tag # "AdHoc"
         /\ x = last.out.value
    /\ (last.op = "from_result" /\ prev.op = "from_result" /\ last.arg # prev.arg) =>
         last.out # prev.out
    /\ \E a \in AdHocResult : \A res \in Result : from_result(res) # Returned(a)

C6_Witness ==
    /\ last.op = "from_result"
    /\ prev.op = "from_result"
    /\ last.arg.tag = "Err"
    /\ prev.arg.tag = "Err"
    /\ last.arg # prev.arg

\* C7: a call panics exactly when it is expect/unwrap on AdHoc or Err, or
\* expect_adhoc/unwrap_adhoc on Err; constructors and conversions always
\* return.
C7_OnlyExtractorsPanic ==
    last.op # "none" =>
        ((last.out.kind = "panic") <=>
            \/ (last.op \in {"expect", "unwrap"} /\ last.arg.tag \in {"AdHoc", "Err"})
            \/ (last.op \in {"expect_adhoc", "unwrap_adhoc"} /\ last.arg.tag = "Err"))

C7_Witness ==
    /\ last.op = "to_result_with_adhoc"
    /\ prev.op = "new_err"
    /\ last.arg.tag = "Err"
    /\ last.out.kind = "return"

\* C8: unwrap() behaves as expect("Unwrap fails") and unwrap_adhoc() as
\* expect_adhoc("Unwrap fails"): the same value, or a panic with that fixed
\* text whatever the payload.
C8_UnwrapIsExpectWithDefault ==
    /\ last.op = "unwrap" =>
         /\ last.out = expect(last.arg, "Unwrap fails")
         /\ last.out.kind = "panic" => last.out.message = "Unwrap fails"
    /\ last.op = "unwrap_adhoc" =>
         /\ last.out = expect_adhoc(last.arg, "Unwrap fails")
         /\ last.out.kind = "panic" => last.out.message = "Unwrap fails"

C8_Witness ==
    /\ last.op = "unwrap"
    /\ last.arg.tag = "AdHoc"
    /\ last.out = Panicked("Unwrap fails")

\* C9: outcome.into() gives exactly outcome.to_result(): AdHoc(v, e) becomes
\* Result::Err(e), never Result::Ok(v).
C9_IntoUsesToResult ==
    last.op = "into" =>
        /\ last.out = to_result(last.arg)
        /\ last.arg.tag = "AdHoc" => last.out = Returned(ResultErr(last.arg.error))

C9_Witness ==
    /\ last.op = "into"
    /\ last.arg.tag = "AdHoc"
    /\ last.arg.value # last.arg.error
    /\ r = ResultErr(last.arg.error)

\* C10: an outcome is consumed at most once after it is built: an extraction
\* or conversion takes a live binding and leaves it moved, so no second one
\* applies to it, and a live binding changes only by being moved or rebuilt.
LifecycleStep ==
    /\ uses' <= 1
    /\ uses' > uses =>
         /\ IsLive(x)
         /\ x' = Moved
         /\ last'.op \in Extractors \cup Conversions
         /\ last'.arg = x
    /\ (IsLive(x) /\ x' # x) =>
         \/ x' = Moved /\ uses' = uses + 1
         \/ last'.op \in Constructors /\ x' = last'.out.value /\ uses' = 0
    /\ (~IsLive(x) /\ IsLive(x')) => last'.op \in Constructors

====
